---- MODULE Spec2Model ----
(***************************************************************************)
(* Model of the annotation app (src/app.py): the session store (docs,      *)
(* anns, labels, search, relations), the handlers that change it, the      *)
(* workspace codec, the search helper, and the viewer's render and         *)
(* selection-offset functions.                                             *)
(*                                                                         *)
(* Strings are sequences of one-character strings.  A document id is a     *)
(* sequence of string chunks: "doc_" followed by its digits for generated  *)
(* ids, one chunk for an id given by a CSV row.                            *)
(* One action is one script run: the handler of the pressed button and     *)
(* the rest of the script that runs after it (or the rerun it asks for).   *)
(***************************************************************************)
EXTENDS Integers, Sequences, FiniteSets, TLC

VARIABLES
  docs,         \* st.session_state.docs: doc id -> text
  anns,         \* st.session_state.anns: doc id -> list of Annotation
  labels,       \* st.session_state.labels
  search,       \* st.session_state.search: doc id -> {term, positions, i}
  relations,    \* st.session_state.relations: doc id -> list of Relation
  last_doc_id,  \* st.session_state.last_doc_id, the document the last run showed
  viewer,       \* the payload the viewer component was last rendered from
  last          \* how the last run ended: "delete", "load_ok", "load_failed",
                \* "indices_rejected", "relation_rejected", "raised", else "run"

vars == <<docs, anns, labels, search, relations, last_doc_id, viewer, last>>

\* ------------------------------------------------------------ bounds
MaxAnns == 2
MaxRels == 1

\* ------------------------------------------------------------ dict helpers
EmptyDict == [x \in {} |-> {}]

Put(f, k, v) == [x \in (DOMAIN f) \cup {k} |-> IF x = k THEN v ELSE f[x]]

Pop(f, k) == [x \in (DOMAIN f) \ {k} |-> f[x]]

\* dict.setdefault(k, v), as the dict it leaves
SetDefault(f, k, v) == IF k \in DOMAIN f THEN f ELSE Put(f, k, v)

\* dict.get(k, dflt)
Get(f, k, dflt) == IF k \in DOMAIN f THEN f[k] ELSE dflt

Min(a, b) == IF a < b THEN a ELSE b

Max(a, b) == IF a > b THEN a ELSE b

\* Python / JS slice text[s:e] for s, e >= 0: clamped to the text, empty when s >= e
Slice(t, s, e) ==
  LET e2 == Min(e, Len(t)) IN
  IF s >= e2 THEN <<>> ELSE SubSeq(t, s + 1, e2)

\* ------------------------------------------------------------ data model
NoDoc == <<"None">>

DEFAULT_LABELS == <<"Diagnosis", "Symptom", "Medication", "Procedure", "Test", "Other">>

NoAttrs == {}

Annotation(doc_id, start, end, text, label, attrs) ==
  [doc_id |-> doc_id, start |-> start, end |-> end, text |-> text,
   label |-> label, attrs |-> attrs]

Relation(doc_id, head_idx, tail_idx, label) ==
  [doc_id |-> doc_id, head_idx |-> head_idx, tail_idx |-> tail_idx, label |-> label]

\* ------------------------------------------------------------ document ids
DigitChars == <<"0", "1", "2", "3", "4", "5", "6", "7", "8", "9">>

RECURSIVE Digits(_)
Digits(n) ==
  IF n < 10 THEN <<DigitChars[n + 1]>>
  ELSE Digits(n \div 10) \o <<DigitChars[(n % 10) + 1]>>

RECURSIVE ZeroPad(_, _)
ZeroPad(ds, width) == IF Len(ds) >= width THEN ds ELSE ZeroPad(<<"0">> \o ds, width)

\* f"doc_{n:04d}"
DocIdFormat(n) == <<"doc_">> \o ZeroPad(Digits(n), 4)

\* the id _add_doc gives the next document
NextDocId(d) == DocIdFormat(Cardinality(DOMAIN d) + 1)

\* _add_doc(text) on the pair (docs, anns)
AddDoc(st, text) ==
  LET doc_id == NextDocId(st.docs) IN
  [docs |-> Put(st.docs, doc_id, text),
   anns |-> SetDefault(st.anns, doc_id, <<>>)]

RECURSIVE AddDocs(_, _)
AddDocs(st, texts) ==
  IF texts = <<>> THEN st ELSE AddDocs(AddDoc(st, Head(texts)), Tail(texts))

\* ------------------------------------------------------------ search helper
Whitespace == {" "}

\* the character LATIN SMALL LETTER LONG S (U+017F), named by its code point
LongS == "U+017F"

\* str.lower() of one character; the long s is a lower-case letter already
Lower(c) == CASE c = "A" -> "a" [] c = "B" -> "b" [] c = "S" -> "s" [] OTHER -> c

\* the characters re.IGNORECASE takes for the same: those with the same lower
\* case, and the long s with "s" and "S"
IgnoreCase(c) == IF c = LongS THEN "s" ELSE Lower(c)

\* str.strip() leaves nothing
IsBlank(t) == \A k \in 1..Len(t) : t[k] \in Whitespace

\* the escaped needle matches at offset s, ignoring case
MatchesAt(haystack, needle, s) ==
  /\ s + Len(needle) <= Len(haystack)
  /\ \A k \in 1..Len(needle) : IgnoreCase(haystack[s + k]) = IgnoreCase(needle[k])

\* re.finditer: leftmost matches, each search resuming at the end of the last match
RECURSIVE FindIter(_, _, _)
FindIter(haystack, needle, from) ==
  IF from + Len(needle) > Len(haystack) THEN <<>>
  ELSE IF MatchesAt(haystack, needle, from)
       THEN <<<<from, from + Len(needle)>>>> \o FindIter(haystack, needle, from + Len(needle))
       ELSE FindIter(haystack, needle, from + 1)

find_all(haystack, needle) ==
  IF needle = <<>> \/ IsBlank(needle) THEN <<>> ELSE FindIter(haystack, needle, 0)

\* ------------------------------------------------------------ viewer: render and selection
\* the key of a span in match_index_map: f"{s}-{e}" in Python, s + "-" + e in the viewer
MatchKey(s, e) == Digits(s) \o <<"-">> \o Digits(e)

\* match_map: key -> idx + 1; a later position with the same key replaces an earlier one
RECURSIVE MatchMapFrom(_, _, _)
MatchMapFrom(positions, idx, acc) ==
  IF idx > Len(positions) THEN acc
  ELSE MatchMapFrom(positions, idx + 1,
                    Put(acc, MatchKey(positions[idx][1], positions[idx][2]), idx))

MatchMap(positions) == MatchMapFrom(positions, 1, EmptyDict)

\* anns.slice().sort((a,b) => a.start - b.start): stable, ascending start
RECURSIVE InsertByStart(_, _)
InsertByStart(sorted, a) ==
  IF sorted = <<>> THEN <<a>>
  ELSE IF a.start < Head(sorted).start THEN <<a>> \o sorted
       ELSE <<Head(sorted)>> \o InsertByStart(Tail(sorted), a)

RECURSIVE SortByStart(_)
SortByStart(as) ==
  IF as = <<>> THEN <<>>
  ELSE InsertByStart(SortByStart(SubSeq(as, 1, Len(as) - 1)), as[Len(as)])

\* a text node of the rendered root: its characters, and for a node cut from the
\* document the offset it was cut at (-1 for the text of a badge)
TextNode(txt, src) == [txt |-> txt, src |-> src]

\* the text nodes one annotation adds, the sweep being at cursor
SpanNodes(text, a, cursor, mm, total) ==
  LET s == Max(0, Min(a.start, Len(text)))
      e == Max(0, Min(a.end, Len(text)))
      key == MatchKey(s, e)
      gap == IF s > cursor THEN <<TextNode(Slice(text, cursor, s), cursor)>> ELSE <<>>
      badge == IF key \in DOMAIN mm /\ total # 0
               THEN <<TextNode(Digits(mm[key]) \o <<"/">> \o Digits(total), -1)>>
               ELSE <<>>
  IN [nodes |-> gap \o <<TextNode(Slice(text, s, e), s)>> \o badge, cursor |-> e]

RECURSIVE Sweep(_, _, _, _, _)
Sweep(text, as, cursor, mm, total) ==
  IF as = <<>>
  THEN IF cursor < Len(text) THEN <<TextNode(Slice(text, cursor, Len(text)), cursor)>> ELSE <<>>
  ELSE LET r == SpanNodes(text, Head(as), cursor, mm, total)
       IN r.nodes \o Sweep(text, Tail(as), r.cursor, mm, total)

\* renderAnnotated(): the text nodes of root, in tree order
renderAnnotated(text, annotations, positions) ==
  Sweep(text, SortByStart(annotations), 0, MatchMap(positions), Len(positions))

\* indexInRoot(node, offset), node being the n-th text node of root
RECURSIVE indexInRoot(_, _, _)
indexInRoot(nodes, n, offset) ==
  IF n = 1 THEN offset ELSE Len(nodes[1].txt) + indexInRoot(Tail(nodes), n - 1, offset)

\* the boundary points a selection inside root can have: a text node and an offset in it
Boundaries(nodes) ==
  UNION { { <<n, o>> : o \in 0..Len(nodes[n].txt) } : n \in 1..Len(nodes) }

\* the message the "Add" button of the popup posts for a selection from boundary b1 to b2
SelectionMsg(text, nodes, b1, b2) ==
  LET start == indexInRoot(nodes, b1[1], b1[2])
      end == indexInRoot(nodes, b2[1], b2[2])
      s == Min(start, end)
      e == Max(start, end)
  IN [start |-> s, end |-> e, text |-> Slice(text, s, e)]

\* ------------------------------------------------------------ workspace codec
AnnFields == {"doc_id", "start", "end", "text", "label", "attrs"}

AnnRequired == {"doc_id", "start", "end", "text", "label"}

RelFields == {"doc_id", "head_idx", "tail_idx", "label"}

\* asdict(x) of a dataclass instance: the dict of its fields
asdict(x) == x

\* Annotation(**a): a TypeError unless the keys are fields and hold every required one
AnnotationOk(a) == DOMAIN a \subseteq AnnFields /\ AnnRequired \subseteq DOMAIN a

AnnotationFrom(a) ==
  Annotation(a.doc_id, a.start, a.end, a.text, a.label, Get(a, "attrs", NoAttrs))

\* Relation(**r)
RelationOk(r) == DOMAIN r = RelFields

RelationFrom(r) == Relation(r.doc_id, r.head_idx, r.tail_idx, r.label)

MapList(Op(_), xs) == [k \in 1..Len(xs) |-> Op(xs[k])]

\* workspace_to_json writing the version 1 payload, which had no relations
workspace_to_json_v1(d, a, l, rels) ==
  [version |-> 1,
   docs |-> d,
   anns |-> [k \in DOMAIN a |-> MapList(asdict, a[k])],
   labels |-> l]

\* the payload workspace_to_json dumps; rels is st.session_state.relations
workspace_to_json(d, a, l, rels) ==
  [version |-> 2,
   docs |-> d,
   anns |-> [k \in DOMAIN a |-> MapList(asdict, a[k])],
   labels |-> l,
   relations |-> [k \in DOMAIN d |-> MapList(asdict, Get(rels, k, <<>>))]]

\* a file: what json.loads makes of it (parses = FALSE: it raises)
JsonFile(data) == [parses |-> TRUE, data |-> data]

Unparsable == [parses |-> FALSE, data |-> EmptyDict]

\* workspace_from_json storing the relations before it builds the annotations
workspace_from_json_early(file, rels) ==
  IF ~file.parses THEN [raised |-> TRUE, relations |-> rels]
  ELSE
    LET data == file.data
        docs2 == Get(data, "docs", EmptyDict)
        raw_anns == Get(data, "anns", EmptyDict)
        labels2 == Get(data, "labels", DEFAULT_LABELS)
        raw_rels == Get(data, "relations", EmptyDict)
    IN IF \E k \in DOMAIN raw_rels : \E j \in 1..Len(raw_rels[k]) : ~RelationOk(raw_rels[k][j])
       THEN [raised |-> TRUE, relations |-> rels]
       ELSE IF \E k \in DOMAIN raw_anns : \E j \in 1..Len(raw_anns[k]) : ~AnnotationOk(raw_anns[k][j])
       THEN [raised |-> TRUE,
             relations |-> [k \in DOMAIN raw_rels |-> MapList(RelationFrom, raw_rels[k])]]
       ELSE [raised |-> FALSE,
             docs |-> docs2,
             anns |-> [k \in DOMAIN raw_anns |-> MapList(AnnotationFrom, raw_anns[k])],
             labels |-> labels2,
             relations |-> [k \in DOMAIN raw_rels |-> MapList(RelationFrom, raw_rels[k])]]

\* workspace_from_json(s) with st.session_state.relations = rels when it is called:
\* raised tells whether it raised, relations is st.session_state.relations after it
workspace_from_json(file, rels) ==
  IF ~file.parses THEN [raised |-> TRUE, relations |-> rels]
  ELSE
    LET data == file.data
        docs2 == Get(data, "docs", EmptyDict)
        raw_anns == Get(data, "anns", EmptyDict)
        labels2 == Get(data, "labels", DEFAULT_LABELS)
        raw_rels == Get(data, "relations", EmptyDict)
    IN IF \E k \in DOMAIN raw_anns : \E j \in 1..Len(raw_anns[k]) : ~AnnotationOk(raw_anns[k][j])
       THEN [raised |-> TRUE, relations |-> rels]
       ELSE IF \E k \in DOMAIN raw_rels : \E j \in 1..Len(raw_rels[k]) : ~RelationOk(raw_rels[k][j])
       THEN [raised |-> TRUE, relations |-> rels]
       ELSE [raised |-> FALSE,
             docs |-> docs2,
             anns |-> [k \in DOMAIN raw_anns |-> MapList(AnnotationFrom, raw_anns[k])],
             labels |-> labels2,
             relations |-> [k \in DOMAIN raw_rels |-> MapList(RelationFrom, raw_rels[k])]]

\* ------------------------------------------------------------ relations UI
\* the option of the span select boxes for annotation i (0-based) of the list
AnnListEntry(i, a) == Digits(i) \o <<":", " ">> \o Slice(a.text, 0, 40)

\* pick.split(":")[0]
RECURSIVE SplitFirst(_)
SplitFirst(str) ==
  IF str = <<>> \/ Head(str) = ":" THEN <<>> ELSE <<Head(str)>> \o SplitFirst(Tail(str))

DigitValue(c) == CHOOSE v \in 0..9 : DigitChars[v + 1] = c

\* int(digits)
RECURSIVE ParseInt(_)
ParseInt(ds) ==
  IF Len(ds) = 1 THEN DigitValue(ds[1])
  ELSE 10 * ParseInt(SubSeq(ds, 1, Len(ds) - 1)) + DigitValue(ds[Len(ds)])

\* ------------------------------------------------------------ rule annotator
\* the characters that make a term a regular expression
MetaChars == {".", "*", "+", "?", "[", "]", "(", ")", "{", "}", "|", "\\"}

HasMeta(term) == \E k \in 1..Len(term) : term[k] \in MetaChars

\* [A-Za-z0-9_], as far as the alphabet of the model goes; with re.IGNORECASE the
\* class also takes the long s
WordChar(c, case_insensitive) ==
  \/ c \in {"a", "b", "s", "A", "B", "S", "0", "1", "_"}
  \/ (case_insensitive /\ c = LongS)

\* two characters are the same for a pattern compiled with the flags of the run
SameChar(c1, c2, case_insensitive) ==
  IF case_insensitive THEN IgnoreCase(c1) = IgnoreCase(c2) ELSE c1 = c2

\* what re makes of the pattern of a rule: a plain term is wrapped in WORD_BOUND,
\* a term with a metacharacter is the pattern itself. Of the latter the model
\* knows "c*" (c not a metacharacter); the others of its rules ("(") do not compile
Compile(term) ==
  IF ~HasMeta(term) THEN [kind |-> "word", lit |-> term]
  ELSE IF Len(term) = 2 /\ term[1] \notin MetaChars /\ term[2] = "*"
       THEN [kind |-> "star", lit |-> <<term[1]>>]
       ELSE [kind |-> "error", lit |-> term]

\* WORD_BOUND matches at offset s: the term is there, no word character before
\* it and none after it
WordMatchAt(txt, term, s, case_insensitive) ==
  /\ s + Len(term) <= Len(txt)
  /\ \A k \in 1..Len(term) : SameChar(txt[s + k], term[k], case_insensitive)
  /\ (s = 0 \/ ~WordChar(txt[s], case_insensitive))
  /\ (s + Len(term) = Len(txt) \/ ~WordChar(txt[s + Len(term) + 1], case_insensitive))

\* re.finditer of WORD_BOUND: leftmost matches, the search resuming at the end
\* of the last one
RECURSIVE WordIter(_, _, _, _)
WordIter(txt, term, from, case_insensitive) ==
  IF from + Len(term) > Len(txt) THEN <<>>
  ELSE IF WordMatchAt(txt, term, from, case_insensitive)
       THEN <<<<from, from + Len(term)>>>>
            \o WordIter(txt, term, from + Len(term), case_insensitive)
       ELSE WordIter(txt, term, from + 1, case_insensitive)

\* the length of the run of c that starts at offset from
RECURSIVE RunLength(_, _, _, _)
RunLength(txt, c, from, case_insensitive) ==
  IF from < Len(txt) /\ SameChar(txt[from + 1], c, case_insensitive)
  THEN 1 + RunLength(txt, c, from + 1, case_insensitive)
  ELSE 0

\* re.finditer of "c*": the longest run at every offset the search reaches, the
\* empty one included; after an empty match the search moves on by one character
RECURSIVE StarIter(_, _, _, _)
StarIter(txt, c, from, case_insensitive) ==
  IF from > Len(txt) THEN <<>>
  ELSE LET n == RunLength(txt, c, from, case_insensitive) IN
       <<<<from, from + n>>>>
       \o StarIter(txt, c, IF n = 0 THEN from + 1 ELSE from + n, case_insensitive)

\* re.finditer(pattern, txt, flags) of a pattern that compiles
FindPattern(txt, pat, case_insensitive) ==
  IF pat.kind = "word" THEN WordIter(txt, pat.lit, 0, case_insensitive)
  ELSE StarIter(txt, pat.lit[1], 0, case_insensitive)

\* the annotations of the matches of one rule
RECURSIVE RuleAnns(_, _, _, _)
RuleAnns(doc_id, txt, lbl, matches) ==
  IF matches = <<>> THEN <<>>
  ELSE <<Annotation(doc_id, Head(matches)[1], Head(matches)[2],
                    Slice(txt, Head(matches)[1], Head(matches)[2]), lbl,
                    {<<"source", "gazetteer">>})>>
       \o RuleAnns(doc_id, txt, lbl, Tail(matches))

\* preannotate_doc from the rule at position i on: the annotation dict it leaves,
\* the count it has reached, and whether it raised (a pattern that does not
\* compile, or no annotation list to append to) and so returned nothing
RECURSIVE PreannotateFrom(_, _, _, _, _, _, _)
PreannotateFrom(a, txt, doc_id, rules, i, added, case_insensitive) ==
  IF i > Len(rules) THEN [raised |-> FALSE, anns |-> a, added |-> added]
  ELSE LET lbl == rules[i][1]
           pat == Compile(rules[i][2])
       IN IF pat.kind = "error" THEN [raised |-> TRUE, anns |-> a, added |-> added]
          ELSE LET new == RuleAnns(doc_id, txt, lbl, FindPattern(txt, pat, case_insensitive))
               IN IF new # <<>> /\ doc_id \notin DOMAIN a
                  THEN [raised |-> TRUE, anns |-> a, added |-> added]
                  ELSE PreannotateFrom(IF new = <<>> THEN a ELSE Put(a, doc_id, a[doc_id] \o new),
                                       txt, doc_id, rules, i + 1, added + Len(new),
                                       case_insensitive)

\* preannotate_doc on the store (d, a); st.session_state.docs[doc_id] raises for a
\* document that is not there
preannotate_doc(d, a, doc_id, rules, case_insensitive) ==
  IF doc_id \notin DOMAIN d THEN [raised |-> TRUE, anns |-> a, added |-> 0]
  ELSE PreannotateFrom(a, d[doc_id], doc_id, rules, 1, 0, case_insensitive)

\* "for did in targets: total += preannotate_doc(did, rules, ...)": the loop ends
\* where preannotate_doc raises
RECURSIVE PreannotateAll(_, _, _, _, _, _)
PreannotateAll(d, a, targets, rules, total, case_insensitive) ==
  IF targets = <<>> THEN [raised |-> FALSE, anns |-> a, total |-> total]
  ELSE LET r == preannotate_doc(d, a, Head(targets), rules, case_insensitive) IN
       IF r.raised THEN [raised |-> TRUE, anns |-> r.anns, total |-> total]
       ELSE PreannotateAll(d, r.anns, Tail(targets), rules, total + r.added,
                           case_insensitive)

\* list(st.session_state.docs.keys()): the keys in the order they were inserted,
\* which the dicts of the model do not keep: any order of the keys
KeyLists(d) ==
  { f \in [1..Cardinality(DOMAIN d) -> DOMAIN d] :
      \A i \in DOMAIN f, j \in DOMAIN f : i # j => f[i] # f[j] }

\* the targets of a run of the gazetteer
Targets(d, scoped, keys) ==
  IF scoped = "Current doc" /\ last_doc_id # NoDoc THEN <<last_doc_id>> ELSE keys

\* ------------------------------------------------------------ inputs
TextSet == { <<"b", "a">>, <<"a">> }

\* the document ids the model lets the store hold
DocIdSet == { DocIdFormat(1), DocIdFormat(2) }

PasteSet == { <<t>> : t \in TextSet } \cup { <<t1, t2>> : t1 \in TextSet, t2 \in TextSet }

\* ids a CSV row can carry
CsvIdSet == { DocIdFormat(1) }

NeedleSet == { <<"B">> }

NewLabelSet == { "X", " " }

\* the longest text of a document in the specifications of the pure functions
MaxHay == 3

\* the texts of at most n characters of S, the empty one left out
StrUpTo(S, n) == UNION { [1..k -> S] : k \in 1..n }

\* the documents find_all is run on, and what is typed into the Find box
HaystackSet == StrUpTo({"a", "s", LongS}, MaxHay)

\* the most annotations the store holds after a run of the gazetteer
MaxSuggested == 3

\* the rules of a gazetteer file: plain terms, a pattern and a pattern that does
\* not compile
RuleSet ==
  { <<"Diagnosis", <<"A">>>>, <<"Symptom", <<"-", "-">>>>,
    <<"Test", <<"-", "*">>>>, <<"Other", <<"(">>>> }

MaxRules == 2

RuleListSet == StrUpTo(RuleSet, MaxRules)

\* the notes pasted before the gazetteer is run
RuleTextSet == StrUpTo({"a", "-"}, MaxHay)

RulePasteSet == { <<t>> : t \in RuleTextSet } \cup { <<t, <<"a">>>> : t \in RuleTextSet }

FindNeedleSet == { <<>>, <<" ">>, <<"a">>, <<"S">>, <<"a", "a">>, <<"a", "s">> }

\* the labels offered to the user are those of the label list; the model picks the
\* one the select box starts on
LabelChoice(l) == { l[1] }

\* the labels the popup of the viewer posts, in the order they were picked
PopupChoice(l) == { <<l[1]>> }

\* a workspace file saved by the app: one document, two annotations, one relation
SavedFile ==
  LET d == DocIdFormat(1) IN
  JsonFile(workspace_to_json(
    Put(EmptyDict, d, <<"b", "a">>),
    Put(EmptyDict, d, << Annotation(d, 0, 1, <<"b">>, "Diagnosis", NoAttrs),
                         Annotation(d, 1, 2, <<"a">>, "Diagnosis",
                                    {<<"source", "batch-search">>}) >>),
    DEFAULT_LABELS,
    Put(EmptyDict, d, << Relation(d, 0, 1, "relates_to") >>)))

\* a file whose annotation record lacks a field
BadAnnFile ==
  LET d == DocIdFormat(1) IN
  JsonFile([version |-> 2,
            docs |-> Put(EmptyDict, d, <<"a">>),
            anns |-> Put(EmptyDict, d, << [doc_id |-> d, start |-> 0, end |-> 1] >>),
            labels |-> <<"Y">>,
            relations |-> Put(EmptyDict, d, <<>>)])

\* a file whose relation record lacks a field
BadRelFile ==
  LET d == DocIdFormat(1) IN
  JsonFile([version |-> 2,
            docs |-> Put(EmptyDict, d, <<"a">>),
            anns |-> Put(EmptyDict, d, <<>>),
            labels |-> <<"Y">>,
            relations |-> Put(EmptyDict, d, << [doc_id |-> d, head_idx |-> 0] >>)])

FileSet == { SavedFile, BadAnnFile, BadRelFile, Unparsable }

\* ------------------------------------------------------------ the main part of a script run
EmptySearch == [term |-> <<>>, positions |-> <<>>, i |-> 0]

NoViewer == [doc |-> NoDoc, text |-> <<>>, annotations |-> <<>>, positions |-> <<>>]

\* viewer_payload of the shown document: its text, its annotations and the match
\* positions the badges are numbered from
Payload(d, a, s, doc_id) ==
  [doc |-> doc_id, text |-> d[doc_id], annotations |-> Get(a, doc_id, <<>>),
   positions |-> s[doc_id].positions]

\* the value of the "Select a document" box in a run that follows a change of the
\* store: the shown document while the options are the same, else any option
Selectable(oldDocs, newDocs) ==
  IF DOMAIN newDocs = {} THEN {NoDoc}
  ELSE IF DOMAIN newDocs = DOMAIN oldDocs /\ last_doc_id \in DOMAIN newDocs
       THEN {last_doc_id}
       ELSE DOMAIN newDocs

\* search state initialisation for the shown document
SearchInit(s, doc_id) == SetDefault(s, doc_id, EmptySearch)

\* rels = st.session_state.relations.setdefault(doc_id, [])
RelsInit(r, doc_id) == SetDefault(r, doc_id, <<>>)

\* A run of the script from the store (d, a, l, r) in which no handler of the main
\* area changes anything (also the run st.rerun() starts): it stops at the
\* empty-store check, else shows doc_id.
MainRun(d, a, l, r, doc_id, ev) ==
  /\ docs' = d
  /\ anns' = a
  /\ labels' = l
  /\ last' = ev
  /\ IF DOMAIN d = {}
     THEN /\ search' = search
          /\ relations' = r
          /\ last_doc_id' = last_doc_id
          /\ viewer' = NoViewer
     ELSE /\ search' = SearchInit(search, doc_id)
          /\ relations' = RelsInit(r, doc_id)
          /\ last_doc_id' = doc_id
          /\ viewer' = Payload(d, a, search', doc_id)

\* the number of items in the lists of a dict of lists
RECURSIVE CountItems(_)
CountItems(a) ==
  IF DOMAIN a = {} THEN 0
  ELSE LET k == CHOOSE x \in DOMAIN a : TRUE IN Len(a[k]) + CountItems(Pop(a, k))

\* a document is shown: the last run reached the main area
Shown == docs # EmptyDict /\ last_doc_id \in DOMAIN docs

\* a handler of the main area raised: the run ends there, nothing after it runs
Raised ==
  /\ last' = "raised"
  /\ viewer' = Payload(docs, anns, search, last_doc_id)
  /\ UNCHANGED <<docs, anns, labels, search, relations, last_doc_id>>

\* st.session_state.anns[doc_id].append(ann), as the dict it leaves
AppendAnns(a, doc_id, new) == Put(a, doc_id, a[doc_id] \o new)

\* ------------------------------------------------------------ actions
Init ==
  /\ docs = EmptyDict
  /\ anns = EmptyDict
  /\ labels = DEFAULT_LABELS
  /\ search = EmptyDict
  /\ relations = EmptyDict
  /\ last_doc_id = NoDoc
  /\ viewer = NoViewer
  /\ last = "init"

\* "Add to workspace" (paste): _add_doc for every pasted note
AddPaste ==
  \E texts \in PasteSet :
    LET st == AddDocs([docs |-> docs, anns |-> anns], texts) IN
    /\ DOMAIN st.docs \subseteq DocIdSet
    /\ \E sel \in Selectable(docs, st.docs) :
         MainRun(st.docs, st.anns, labels, relations, sel, "run")

\* one CSV row: docs[str(id)] = str(text); anns.setdefault(str(id), [])
CsvRow(st, row) ==
  [docs |-> Put(st.docs, row[1], row[2]),
   anns |-> SetDefault(st.anns, row[1], <<>>)]

\* "Add CSV" with a one-row file that has the columns id, text
AddCsv ==
  \E id \in CsvIdSet, text \in TextSet :
    LET st == CsvRow([docs |-> docs, anns |-> anns], <<id, text>>) IN
    /\ DOMAIN st.docs \subseteq DocIdSet
    /\ \E sel \in Selectable(docs, st.docs) :
         MainRun(st.docs, st.anns, labels, relations, sel, "run")

\* the user picks another document in the select box
SelectDoc ==
  \E d \in DOMAIN docs :
    /\ d # last_doc_id
    /\ MainRun(docs, anns, labels, relations, d, "run")

\* "Delete current document" without the pop of the relations
DeleteDoc_keeps_relations ==
  /\ Shown
  /\ LET doc_id == last_doc_id
         d2 == Pop(docs, doc_id)
         a2 == Pop(anns, doc_id)
     IN \E sel \in Selectable(docs, d2) :
          MainRun(d2, a2, labels, relations, sel, "delete")

\* "Delete current document"
DeleteDoc ==
  /\ Shown
  /\ LET doc_id == last_doc_id
         d2 == Pop(docs, doc_id)
         a2 == Pop(anns, doc_id)
         r2 == Pop(relations, doc_id)
     IN \E sel \in Selectable(docs, d2) :
          MainRun(d2, a2, labels, r2, sel, "delete")

\* "Add label"
AddLabel ==
  \E new_label \in NewLabelSet :
    LET l2 == IF new_label \notin Whitespace /\ new_label \notin {labels[k] : k \in 1..Len(labels)}
              THEN Append(labels, new_label) ELSE labels
    IN \E sel \in Selectable(docs, docs) :
         MainRun(docs, anns, l2, relations, sel, "run")

\* "Reset labels"
ResetLabels ==
  \E sel \in Selectable(docs, docs) :
    MainRun(docs, anns, DEFAULT_LABELS, relations, sel, "run")

\* "Load Workspace" with file ws_file
LoadWorkspace(ws_file) ==
  LET r == workspace_from_json(ws_file, relations) IN
  IF r.raised
  THEN \E sel \in Selectable(docs, docs) :
         MainRun(docs, anns, labels, r.relations, sel, "load_failed")
  ELSE \E sel \in Selectable(docs, r.docs) :
         MainRun(r.docs, r.anns, r.labels, r.relations, sel, "load_ok")

Load == \E ws_file \in FileSet : LoadWorkspace(ws_file)

\* "Find all": the viewer of this run was rendered before the handler ran
\* "Find all" with q2 in the Find box
FindAllWith(q2) ==
  LET doc_id == last_doc_id
      text == docs[doc_id]
      sstate == [term |-> q2,
                 positions |-> IF ~IsBlank(q2) THEN find_all(text, q2) ELSE <<>>,
                 i |-> 0]
  IN /\ search' = Put(search, doc_id, sstate)
     /\ viewer' = Payload(docs, anns, search, doc_id)
     /\ relations' = RelsInit(relations, doc_id)
     /\ last' = "run"
     /\ UNCHANGED <<docs, anns, labels, last_doc_id>>

FindAll ==
  /\ Shown
  /\ \E q2 \in NeedleSet : FindAllWith(q2)

\* "Prev" (step = -1) and "Next" (step = 1)
PrevNext ==
  /\ Shown
  /\ \E step \in {-1, 1} :
       LET doc_id == last_doc_id
           sstate == search[doc_id]
       IN /\ sstate.positions # <<>>
          /\ search' = Put(search, doc_id,
                           [sstate EXCEPT !.i = (sstate.i + step) % Len(sstate.positions)])
          /\ viewer' = Payload(docs, anns, search, doc_id)
          /\ relations' = RelsInit(relations, doc_id)
          /\ last' = "run"
          /\ UNCHANGED <<docs, anns, labels, last_doc_id>>

\* the selection event of the viewer: one annotation for each label of the popup
RECURSIVE EventAnns(_, _, _)
EventAnns(doc_id, event, lbls) ==
  IF lbls = <<>> THEN <<>>
  ELSE <<Annotation(doc_id, event.start, event.end, event.text, Head(lbls), NoAttrs)>>
       \o EventAnns(doc_id, event, Tail(lbls))

ViewerEvent ==
  /\ Shown
  /\ viewer.doc = last_doc_id
  /\ LET doc_id == last_doc_id
         nodes == renderAnnotated(viewer.text, viewer.annotations, viewer.positions)
     IN \E b1 \in Boundaries(nodes), b2 \in Boundaries(nodes), lbls \in PopupChoice(labels) :
          /\ b1[1] < b2[1] \/ (b1[1] = b2[1] /\ b1[2] < b2[2])
          /\ CountItems(anns) + Len(lbls) <= MaxAnns
          /\ LET event == SelectionMsg(viewer.text, nodes, b1, b2)
                 a2 == SetDefault(anns, doc_id, <<>>)
             IN MainRun(docs, AppendAnns(a2, doc_id, EventAnns(doc_id, event, lbls)),
                        labels, relations, doc_id, "run")

\* "Add annotation (current match)"
AddCurrentMatch ==
  /\ Shown
  /\ LET doc_id == last_doc_id
         text == docs[doc_id]
         sstate == search[doc_id]
     IN /\ sstate.positions # <<>>
        /\ CountItems(anns) < MaxAnns
        /\ \E label_s \in LabelChoice(labels) :
             LET s == sstate.positions[sstate.i + 1][1]
                 e == sstate.positions[sstate.i + 1][2]
                 frag == Slice(text, s, e)
             IN IF doc_id \notin DOMAIN anns THEN Raised
                ELSE MainRun(docs,
                             AppendAnns(anns, doc_id,
                                        <<Annotation(doc_id, s, e, frag, label_s, NoAttrs)>>),
                             labels, relations, doc_id, "run")

\* the annotations "Annotate ALL matches" appends, in the order of the positions
RECURSIVE BatchAnns(_, _, _, _)
BatchAnns(doc_id, text, positions, label_s) ==
  IF positions = <<>> THEN <<>>
  ELSE <<Annotation(doc_id, Head(positions)[1], Head(positions)[2],
                    Slice(text, Head(positions)[1], Head(positions)[2]), label_s,
                    {<<"source", "batch-search">>})>>
       \o BatchAnns(doc_id, text, Tail(positions), label_s)

\* "Annotate ALL matches in this document"
AnnotateAll ==
  /\ Shown
  /\ LET doc_id == last_doc_id
         text == docs[doc_id]
         sstate == search[doc_id]
     IN /\ sstate.positions # <<>>
        /\ CountItems(anns) + Len(sstate.positions) <= MaxAnns
        /\ \E label_s \in LabelChoice(labels) :
             IF doc_id \notin DOMAIN anns THEN Raised
             ELSE MainRun(docs,
                          AppendAnns(anns, doc_id,
                                     BatchAnns(doc_id, text, sstate.positions, label_s)),
                          labels, relations, doc_id, "run")

\* the check of the indices with <= for <
IndicesAccepted_le(start, end) == start <= end

\* whether "Add annotation (indices)" takes the pair of the number inputs
IndicesAccepted(start, end) == start < end

\* "Add annotation (indices)" with the number inputs at start and end
AddByIndicesAt(start, end) ==
  /\ Shown
  /\ LET doc_id == last_doc_id
         text == docs[doc_id]
     IN /\ start \in 0..Len(text)
        /\ end \in 0..Len(text)
        /\ CountItems(anns) < MaxAnns
        /\ \E label_idx \in LabelChoice(labels) :
             IF IndicesAccepted(start, end)
             THEN IF doc_id \notin DOMAIN anns THEN Raised
                  ELSE MainRun(docs,
                               AppendAnns(anns, doc_id,
                                          <<Annotation(doc_id, start, end,
                                                       Slice(text, start, end), label_idx,
                                                       NoAttrs)>>),
                               labels, relations, doc_id, "run")
             ELSE MainRun(docs, anns, labels, relations, doc_id, "indices_rejected")

\* the number inputs keep start and end in 0..len(text)
AddByIndices ==
  \E start \in 0..Len(Get(docs, last_doc_id, <<>>)), end \in 0..Len(Get(docs, last_doc_id, <<>>)) :
    AddByIndicesAt(start, end)

\* "Add relation" without the check of the picked spans
RelationAccepted_any(hi, ti) == TRUE

\* whether "Add relation" takes the pair of picked spans
RelationAccepted(hi, ti) == hi # ti

\* "Add relation" with the head and tail select boxes at options h and t (0-based)
AddRelationAt(h, t) ==
  /\ Shown
  /\ LET doc_id == last_doc_id
         as == Get(anns, doc_id, <<>>)
         rels == RelsInit(relations, doc_id)
         ann_list == [k \in 1..Len(as) |-> AnnListEntry(k - 1, as[k])]
     IN /\ Len(ann_list) >= 2
        /\ h \in 0..(Len(ann_list) - 1)
        /\ t \in 0..(Len(ann_list) - 1)
        /\ CountItems(relations) < MaxRels
        /\ LET hi == ParseInt(SplitFirst(ann_list[h + 1]))
               ti == ParseInt(SplitFirst(ann_list[t + 1]))
           IN IF RelationAccepted(hi, ti)
              THEN MainRun(docs, anns, labels,
                           Put(rels, doc_id,
                               Append(rels[doc_id], Relation(doc_id, hi, ti, "relates_to"))),
                           doc_id, "run")
              ELSE MainRun(docs, anns, labels, relations, doc_id, "relation_rejected")

AddRelation ==
  \E h \in 0..(MaxAnns - 1), t \in 0..(MaxAnns - 1) : AddRelationAt(h, t)

\* ------------------------------------------------------------ gazetteer
\* "Run gazetteer pre-annotation" with the rules of the uploaded CSV
RunGazetteerWith(rules, scoped, casei, keys) ==
  LET r == PreannotateAll(docs, anns, Targets(docs, scoped, keys), rules, 0, casei) IN
  /\ CountItems(r.anns) <= MaxSuggested
  /\ \E sel \in Selectable(docs, docs) :
       MainRun(docs, r.anns, labels, relations, sel,
               IF r.raised THEN "gazetteer_failed" ELSE "run")

RunGazetteer ==
  \E rules \in RuleListSet, scoped \in {"Current doc", "All docs"},
     casei \in BOOLEAN, keys \in KeyLists(docs) :
    RunGazetteerWith(rules, scoped, casei, keys)

Next ==
  \/ AddPaste
  \/ AddCsv
  \/ SelectDoc
  \/ DeleteDoc
  \/ AddLabel
  \/ ResetLabels
  \/ Load
  \/ FindAll
  \/ PrevNext
  \/ ViewerEvent
  \/ AddCurrentMatch
  \/ AnnotateAll
  \/ AddByIndices
  \/ AddRelation
  \/ RunGazetteer

Spec == Init /\ [][Next]_vars

\* the app used without its search box, viewer and label manager: documents,
\* workspace files, annotations by indices, relations
NextStore ==
  \/ AddPaste
  \/ AddCsv
  \/ SelectDoc
  \/ DeleteDoc
  \/ Load
  \/ AddByIndices
  \/ AddRelation

SpecStore == Init /\ [][NextStore]_vars

\* the app used to build a workspace by pasting, labelling and linking, and to load
\* workspace files
NextCodec ==
  \/ AddPaste
  \/ SelectDoc
  \/ AddLabel
  \/ ResetLabels
  \/ Load
  \/ AddByIndices
  \/ AddRelation

SpecCodec == Init /\ [][NextCodec]_vars

\* the app used for searching and selecting in the viewer only
NextSearch ==
  \/ AddPaste
  \/ AddCsv
  \/ SelectDoc
  \/ DeleteDoc
  \/ FindAll
  \/ PrevNext
  \/ ViewerEvent
  \/ AddCurrentMatch
  \/ AnnotateAll

SpecSearch == Init /\ [][NextSearch]_vars

\* the rule annotator on its own: the store holds one or two pasted notes
InitRules ==
  \E texts \in RulePasteSet :
    LET st == AddDocs([docs |-> EmptyDict, anns |-> EmptyDict], texts) IN
    \E sel \in DOMAIN st.docs :
      /\ docs = st.docs
      /\ anns = st.anns
      /\ labels = DEFAULT_LABELS
      /\ search = Put(EmptyDict, sel, EmptySearch)
      /\ relations = Put(EmptyDict, sel, <<>>)
      /\ last_doc_id = sel
      /\ viewer = Payload(docs, anns, search, sel)
      /\ last = "run"

NextRules ==
  \/ SelectDoc
  \/ RunGazetteer

SpecRules == InitRules /\ [][NextRules]_vars

\* find_all on its own: the store holds one pasted note, the user searches it
StoreOf(text) ==
  LET d == DocIdFormat(1) IN
  /\ docs = Put(EmptyDict, d, text)
  /\ anns = Put(EmptyDict, d, <<>>)
  /\ labels = DEFAULT_LABELS
  /\ search = Put(EmptyDict, d, EmptySearch)
  /\ relations = Put(EmptyDict, d, <<>>)
  /\ last_doc_id = d
  /\ viewer = Payload(docs, anns, search, d)
  /\ last = "run"

InitFind == \E text \in HaystackSet : StoreOf(text)

FindAny == Shown /\ \E q2 \in FindNeedleSet : FindAllWith(q2)

NextFind ==
  \/ FindAny
  \/ PrevNext

SpecFind == InitFind /\ [][NextFind]_vars

\* ------------------------------------------------------------ properties
\* every stored annotation, with the key it is stored under
StoredAnns == UNION { { a[k][j] : j \in 1..Len(a[k]) } : a \in {anns}, k \in DOMAIN anns }

\* C1: whatever documents were added and deleted, the id _add_doc gives the next
\* document is not a key of the document store, so adding never overwrites a
\* document or takes over an existing annotation list.
C1_FreshId == NextDocId(docs) \notin DOMAIN docs

\* C2: the step that deletes document d leaves d in none of docs, anns and
\* relations, and leaves the text, annotations and relations of every other
\* document as they were.
C2_DeleteCascades ==
  [][ last' = "delete" =>
        LET d == last_doc_id IN
        /\ d \notin DOMAIN docs'
        /\ d \notin DOMAIN anns'
        /\ d \notin DOMAIN relations'
        /\ DOMAIN docs' = DOMAIN docs \ {d}
        /\ DOMAIN anns' = DOMAIN anns \ {d}
        /\ \A k \in DOMAIN docs' : docs'[k] = docs[k]
        /\ \A k \in DOMAIN anns' : anns'[k] = anns[k]
        /\ \A k \in (DOMAIN relations \cup DOMAIN relations') \ {d} :
             Get(relations', k, <<>>) = Get(relations, k, <<>>) ]_vars

\* a document was deleted and another one kept its annotations and its relation
C2_Witness ==
  /\ last = "delete"
  /\ \E k \in DOMAIN docs : Len(anns[k]) >= 2 /\ Len(Get(relations, k, <<>>)) >= 1

\* C3: the step that deletes document d leaves no match state for d in the
\* search map.
C3_MatchStateDeleted ==
  [][ last' = "delete" => last_doc_id \notin DOMAIN search' ]_vars

\* C4: every stored annotation lies inside the text of its document:
\* 0 <= start <= end <= len(text).
C4_SpansInBounds ==
  \A a \in StoredAnns :
    /\ a.doc_id \in DOMAIN docs
    /\ 0 <= a.start
    /\ a.start <= a.end
    /\ a.end <= Len(docs[a.doc_id])

C6_TextIsSpan ==
  \A a \in StoredAnns :
    /\ a.doc_id \in DOMAIN docs
    /\ a.text = Slice(docs[a.doc_id], a.start, a.end)

\* the relations of the store are valid: head and tail differ and index the
\* annotation list of their document
RelationsValid ==
  \A d \in DOMAIN relations :
    \A j \in 1..Len(relations[d]) :
      LET r == relations[d][j]
          n == Len(Get(anns, d, <<>>))
      IN /\ r.doc_id = d
         /\ r.head_idx # r.tail_idx
         /\ 0 <= r.head_idx /\ r.head_idx < n
         /\ 0 <= r.tail_idx /\ r.tail_idx < n

CleanSpans(text, as) ==
  /\ \A j \in 1..Len(as) : 0 <= as[j].start /\ as[j].start < as[j].end /\ as[j].end <= Len(text)
  /\ \A j \in 1..Len(as), k \in 1..Len(as) :
       j # k => (as[j].end <= as[k].start \/ as[k].end <= as[j].start)

\* C8: in the rendered view (here: of annotations that lie in the text and do not
\* overlap, with or without match badges), the offset indexInRoot computes for a
\* boundary in a text node cut from the document is the offset of that character
\* in the document.
C8_OffsetsExact ==
  CleanSpans(viewer.text, viewer.annotations) =>
    LET nodes == renderAnnotated(viewer.text, viewer.annotations, viewer.positions) IN
    \A b \in Boundaries(nodes) :
      nodes[b[1]].src # -1 => indexInRoot(nodes, b[1], b[2]) = nodes[b[1]].src + b[2]

\* C9: a load that fails leaves docs, anns, labels and relations as they were; a
\* load that succeeds leaves exactly the documents, annotations, labels and
\* relations of the file.
C9_LoadAtomic ==
  [][ /\ last' = "load_failed" =>
           docs' = docs /\ anns' = anns /\ labels' = labels /\ relations' = relations
      /\ \A f \in FileSet :
           (LoadWorkspace(f) /\ last' = "load_ok") =>
             /\ docs' = f.data.docs
             /\ anns' = f.data.anns
             /\ labels' = f.data.labels
             /\ \A k \in DOMAIN relations' \cup DOMAIN f.data.relations :
                  Get(relations', k, <<>>) = Get(f.data.relations, k, <<>>) ]_vars

\* a load failed on a store that holds annotations and a relation
C9_Witness ==
  /\ last = "load_failed"
  /\ \E k \in DOMAIN docs : Len(anns[k]) >= 2 /\ Len(Get(relations, k, <<>>)) >= 1

LowerStr(t) == [k \in 1..Len(t) |-> Lower(t[k])]

\* the match state of a document of the store, with its text
Searched == { d \in DOMAIN search : d \in DOMAIN docs }

\* C12: the matches find_all returns are in non-decreasing order of start, each
\* match (s, e) satisfies haystack[s:e].lower() = needle.lower(), and an empty or
\* whitespace-only needle gives no match.
C12_FindAllSound ==
  /\ \A d \in Searched :
       LET r == find_all(docs[d], search[d].term) IN
       /\ \A j \in 1..(Len(r) - 1) : r[j][1] <= r[j + 1][1]
       /\ \A j \in 1..Len(r) :
            LowerStr(Slice(docs[d], r[j][1], r[j][2])) = LowerStr(search[d].term)
  /\ \A d \in DOMAIN docs : \A n \in FindNeedleSet :
       (n = <<>> \/ IsBlank(n)) => find_all(docs[d], n) = <<>>

\* C13: find_all returns every offset at which the needle occurs in the haystack,
\* ignoring case, also one that overlaps an earlier match.
C13_OverlapsFound ==
  \A d \in Searched :
    LET n == search[d].term
        r == search[d].positions
    IN ~(n = <<>> \/ IsBlank(n)) =>
         \A s \in 0..Len(docs[d]) :
           MatchesAt(docs[d], n, s) =>
             \E j \in 1..Len(r) : r[j] = <<s, s + Len(n)>>

\* the rules of a list whose pattern compiles
WellFormed(rules) == SelectSeq(rules, LAMBDA r : Compile(r[2]).kind # "error")

\* C11: a run of the gazetteer whose rule list holds a pattern that does not
\* compile skips that rule and goes on: the annotations it leaves are those the
\* run leaves with the well-formed rules alone, on every target document.
C11_MalformedSkipped ==
  [][ \A rules \in RuleListSet, scoped \in {"Current doc", "All docs"},
         casei \in BOOLEAN, keys \in KeyLists(docs) :
        RunGazetteerWith(rules, scoped, casei, keys) =>
          anns' = PreannotateAll(docs, anns, Targets(docs, scoped, keys),
                                 WellFormed(rules), 0, casei).anns ]_vars

\* the rules whose term is a plain term
PlainRules == { r \in RuleSet : ~HasMeta(r[2]) }

\* C14: for a rule with a plain term, preannotate_doc appends one annotation for
\* each offset at which the term stands with no word character before or after
\* it, and no other; each has the label of the rule, the text of the span and
\* attrs.source = "gazetteer"; the count returned is the number appended.
C14_WholeWordExact ==
  [][ \A rule \in PlainRules, casei \in BOOLEAN, keys \in KeyLists(docs) :
        RunGazetteerWith(<<rule>>, "Current doc", casei, keys) =>
          LET d == last_doc_id
              r == preannotate_doc(docs, anns, d, <<rule>>, casei)
              old == Len(anns[d])
              new == SubSeq(anns'[d], old + 1, Len(anns'[d]))
              occ == { s \in 0..Len(docs[d]) : WordMatchAt(docs[d], rule[2], s, casei) }
          IN /\ ~r.raised
             /\ SubSeq(anns'[d], 1, old) = anns[d]
             /\ r.added = Len(new)
             /\ Len(new) = Cardinality(occ)
             /\ { new[j] : j \in 1..Len(new) } =
                  { Annotation(d, s, s + Len(rule[2]),
                               Slice(docs[d], s, s + Len(rule[2])),
                               rule[1], {<<"source", "gazetteer">>}) : s \in occ } ]_vars

\* the annotations lie in the text and no two of them overlap: of any two, one
\* ends where or before the other starts
DisjointSpans(text, as) ==
  /\ \A j \in 1..Len(as) : 0 <= as[j].start /\ as[j].start <= as[j].end /\ as[j].end <= Len(text)
  /\ \A j \in 1..Len(as), k \in 1..Len(as) :
       j # k => (as[j].end <= as[k].start \/ as[k].end <= as[j].start)

\* the characters of the text nodes that are not badges, in tree order
RECURSIVE Contents(_)
Contents(nodes) ==
  IF nodes = <<>> THEN <<>>
  ELSE (IF Head(nodes).src = -1 THEN <<>> ELSE Head(nodes).txt) \o Contents(Tail(nodes))

\* C15: when the annotations of the shown document lie in its text and do not
\* overlap, the contents of the segments the sweep emits, badges left out, are
\* the text of the document, and every annotation has a segment that starts at
\* its start and holds text[start:end].
C15_SweepCoversText ==
  DisjointSpans(viewer.text, viewer.annotations) =>
    LET nodes == renderAnnotated(viewer.text, viewer.annotations, viewer.positions) IN
    /\ Contents(nodes) = viewer.text
    /\ \A j \in 1..Len(viewer.annotations) :
         LET a == viewer.annotations[j] IN
         \E n \in 1..Len(nodes) :
           nodes[n].src = a.start /\ nodes[n].txt = Slice(viewer.text, a.start, a.end)

\* C16: the match state kept for a document of the store fits the text the
\* document has now: every position (s, e) has 0 <= s < e <= len(text) and the
\* text from s to e is the stored term, ignoring case.
C16_MatchStateFitsText ==
  \A d \in Searched :
    \A j \in 1..Len(search[d].positions) :
      LET s == search[d].positions[j][1]
          e == search[d].positions[j][2]
      IN /\ 0 <= s /\ s < e /\ e <= Len(docs[d])
         /\ e = s + Len(search[d].term)
         /\ MatchesAt(docs[d], search[d].term, s)
====
